---- MODULE Spec2Model ----
(***************************************************************************)
(* The IBC client validity predicate of shared/src/ledger/ibc/client.rs.   *)
(* One light client is stored under the client id KeyId.  The predicate    *)
(* reads two storage snapshots, the one before the transaction (pre) and   *)
(* the one after it (post), decodes the transaction payload and answers    *)
(* Ok(true), Ok(false) or one of the errors of the Error enum.             *)
(***************************************************************************)
EXTENDS Integers, Sequences, FiniteSets, TLC

VARIABLES pre, post, op, tx_data, result, hcalls, ucalls, reads, counter_result, created

vars == <<pre, post, op, tx_data, result, hcalls, ucalls, reads, counter_result, created>>

(* ------------------------------------------------------------------ *)
(* Bounds and value domains                                           *)
(* ------------------------------------------------------------------ *)

\* Heights of the counterparty chain that the model distinguishes.
MaxHeight == 2

\* Longest header sequence of an update payload.
MaxHeaders == 2

\* Largest client counter value stored in a snapshot.
MaxCounter == 1

Heights == 1..MaxHeight

ClientTypes == {"Tendermint", "Mock"}

\* The client id of the storage key under validation, and another id that
\* a payload may carry instead.
KeyId == "07-tendermint-0"

OtherId == "07-tendermint-1"

\* A decoded ClientState or ConsensusState: the client type it reports and
\* the height of the header it was built from.
States == [tag : {"Val"}, type : ClientTypes, height : Heights]

\* Storage cells.  Absent: the key is not in the snapshot (Ok(None));
\* IoErr: every access to the key fails (Err); ReadErr: the key is there and
\* reading its value fails (Err); Bad: bytes that do not decode; Val: the
\* encoding of a value.
Cell(tag) == [tag |-> tag, type |-> "-", height |-> 0]

Absent == Cell("Absent")

IoErr == Cell("IoErr")

ReadErr == Cell("ReadErr")

Bad == Cell("Bad")

NoneState == Cell("None")

ErrState == Cell("Err")

CounterCell(tag, n) == [tag |-> tag, n |-> n]

u64_MIN == 0

(* ------------------------------------------------------------------ *)
(* The per-client-type verifier (AnyClient), as the predicate uses it *)
(* ------------------------------------------------------------------ *)

Rejected == [ok |-> FALSE, cs |-> ErrState, ccs |-> ErrState]

Accepted(cs, ccs) == [ok |-> TRUE, cs |-> cs, ccs |-> ccs]

\* A header: the client type it belongs to and the height it attests.
Headers == [type : ClientTypes, height : Heights]

\* AnyClient::from_client_type(t).check_header_and_update_state(cs, header):
\* the client of type t handles only states and headers of its own type,
\* rejects a header that is not above the state's latest height, and
\* otherwise returns the state and the consensus state built from the header.
check_header_and_update_state(client, cs, header) ==
    IF cs.type # client \/ header.type # client
    THEN Rejected
    ELSE IF cs.height >= header.height
    THEN Rejected
    ELSE Accepted([tag |-> "Val", type |-> client, height |-> header.height],
                  [tag |-> "Val", type |-> client, height |-> header.height])

\* A proof of a payload: Malformed (the field does not decode), Invalid (it
\* decodes and does not verify) or Val: a proof that the counterparty chain
\* committed to the state it carries.
Proofs == {Cell("Malformed"), Cell("Invalid")} \cup States

\* AnyClient::from_client_type(t).verify_upgrade_and_update_state(cs, ccs,
\* client_proof, consensus_proof): the states must be of the client's type,
\* both proofs must verify, and the proven pair is returned.
verify_upgrade_and_update_state(client, cs, ccs, client_proof, consensus_proof) ==
    IF cs.type # client \/ ccs.type # client
    THEN Rejected
    ELSE IF client_proof.tag # "Val" \/ consensus_proof.tag # "Val"
    THEN Rejected
    ELSE IF client_proof.type # client \/ consensus_proof.type # client
    THEN Rejected
    ELSE Accepted(client_proof, consensus_proof)

(* ------------------------------------------------------------------ *)
(* Storage reads                                                      *)
(* ------------------------------------------------------------------ *)

\* AnyClientState::decode_vec / AnyConsensusState::decode_vec of the bytes
\* of a cell that was read: only the encoding of a value decodes.
decode_vec(cell) ==
    IF cell.tag = "Val" THEN cell ELSE ErrState

\* Result::ok(): an Option.
ok(r) ==
    IF r.tag = "Val" THEN r ELSE NoneState

\* Storage keys (Path::ClientType, Path::ClientState,
\* Path::ClientConsensusState, Key::ibc_client_counter) of client KeyId.
ClientTypeKey == [path |-> "clientType", height |-> 0]

ClientStateKey == [path |-> "clientState", height |-> 0]

ConsensusStateKey(height) == [path |-> "consensusStates", height |-> height]

\* A snapshot's cell for a key.
CellOf(s, key) ==
    IF key.path = "clientType" THEN s.ctype
    ELSE IF key.path = "clientState" THEN s.cstate
    ELSE s.cons[key.height]

\* ctx.read_pre and ctx.read_post: the two snapshots of the context.
read_pre(ctx, key) == CellOf(ctx.pre, key)

read_post(ctx, key) == CellOf(ctx.post, key)

\* Ok(Some(value)): the read succeeded and the key holds bytes.
IsSome(cell) == cell.tag \in {"Val", "Bad"}

\* The posterior reader (impl ClientReader): None when the key is missing,
\* when the read fails and when the bytes do not decode.
client_type(ctx) ==
    IF IsSome(read_post(ctx, ClientTypeKey))
    THEN ok(decode_vec(read_post(ctx, ClientTypeKey)))
    ELSE NoneState

client_state(ctx) ==
    IF IsSome(read_post(ctx, ClientStateKey))
    THEN ok(decode_vec(read_post(ctx, ClientStateKey)))
    ELSE NoneState

consensus_state(ctx, height) ==
    IF IsSome(read_post(ctx, ConsensusStateKey(height)))
    THEN ok(decode_vec(read_post(ctx, ConsensusStateKey(height))))
    ELSE NoneState

\* The prior-state accessors: Err(ClientError) when the key is missing, when
\* the read fails and when the bytes do not decode.
client_state_pre(ctx) ==
    IF IsSome(read_pre(ctx, ClientStateKey))
    THEN decode_vec(read_pre(ctx, ClientStateKey))
    ELSE ErrState

\* A faulty variant of consensus_state_pre: it reads the post snapshot.
consensus_state_pre_reading_post(ctx, height) ==
    IF IsSome(read_post(ctx, ConsensusStateKey(height)))
    THEN decode_vec(read_post(ctx, ConsensusStateKey(height)))
    ELSE ErrState

consensus_state_pre(ctx, height) ==
    IF IsSome(read_pre(ctx, ConsensusStateKey(height)))
    THEN decode_vec(read_pre(ctx, ConsensusStateKey(height)))
    ELSE ErrState

\* The client counter: a decoded u64, a panic (unreachable!()) or
\* Err(ClientError).
CounterVal(n) == [tag |-> "Value", n |-> n]

CounterPanic == [tag |-> "Panic", n |-> 0]

CounterErr == [tag |-> "ClientError", n |-> 0]

NoCounter == [tag |-> "None", n |-> 0]

\* storage::types::decode::<u64>.
decode_u64(cell) ==
    IF cell.tag = "Val" THEN CounterVal(cell.n) ELSE CounterErr

\* ClientReader::client_counter.
client_counter(ctx) ==
    IF IsSome(ctx.post.counter)
    THEN IF decode_u64(ctx.post.counter).tag = "Value"
         THEN decode_u64(ctx.post.counter)
         ELSE CounterVal(u64_MIN)
    ELSE CounterPanic

\* client_counter_pre: the counter key is read with read_post.
client_counter_pre(ctx) ==
    IF IsSome(ctx.post.counter)
    THEN decode_u64(ctx.post.counter)
    ELSE CounterErr

(* ------------------------------------------------------------------ *)
(* Transaction payloads                                               *)
(* ------------------------------------------------------------------ *)

\* The embedded client id of a payload: a client id, or a string that is
\* none (MalformedId).
MalformedId == "not a client id"

PayloadIds == {KeyId, OtherId, MalformedId}

RECURSIVE SeqsUpTo(_, _)
SeqsUpTo(S, n) ==
    IF n = 0
    THEN {<<>>}
    ELSE LET shorter == SeqsUpTo(S, n - 1)
         IN shorter \cup {Append(sq, x) : sq \in {t \in shorter : Len(t) = n - 1}, x \in S}

\* The header sequences of a payload: the headers of one sequence are of
\* one client type.
HeaderSeqs ==
    {[i \in 1..Len(hs) |-> [type |-> t, height |-> hs[i]]] :
        t \in ClientTypes, hs \in SeqsUpTo(Heights, MaxHeaders)}

\* What the payload bytes decode to under each of the two schemas.  A
\* schema that does not match decodes to NoUpdate / NoUpgrade.
NoUpdate == [tag |-> "Err", id |-> MalformedId, headers_ok |-> FALSE, headers |-> <<>>]

NoUpgrade ==
    [tag |-> "Err", id |-> MalformedId,
     client_proof |-> Cell("Malformed"), consensus_proof |-> Cell("Malformed")]

UpdateData(id, headers_ok, headers) ==
    [tag |-> "Ok", id |-> id, headers_ok |-> headers_ok, headers |-> headers]

UpgradeData(id, client_proof, consensus_proof) ==
    [tag |-> "Ok", id |-> id,
     client_proof |-> client_proof, consensus_proof |-> consensus_proof]

\* ClientUpdateData::try_from_slice and ClientUpgradeData::try_from_slice.
ClientUpdateData_try_from_slice(data) == data.upd

ClientUpgradeData_try_from_slice(data) == data.upg

(* ------------------------------------------------------------------ *)
(* The validators                                                     *)
(* ------------------------------------------------------------------ *)

\* What a call returns, with what it did on the way: the verifier calls
\* (hcalls: header verification, ucalls: upgrade verification) and the
\* storage reads, in order.
Out(res, hc, uc, rd) == [res |-> res, hcalls |-> hc, ucalls |-> uc, reads |-> rd]

OkBool(b) == IF b THEN "Ok(true)" ELSE "Ok(false)"

RdPostType == <<"post", "clientType", 0>>

RdPostState == <<"post", "clientState", 0>>

RdPreState == <<"pre", "clientState", 0>>

RdPostCons(h) == <<"post", "consensusStates", h>>

RdPreCons(h) == <<"pre", "consensusStates", h>>

\* Ibc::get_state_change(key): which of the two snapshots hold the key.
has_key_pre(ctx, key) ==
    IF CellOf(ctx.pre, key).tag = "IoErr" THEN "Err"
    ELSE IF CellOf(ctx.pre, key).tag = "Absent" THEN "false"
    ELSE "true"

has_key_post(ctx, key) ==
    IF CellOf(ctx.post, key).tag = "IoErr" THEN "Err"
    ELSE IF CellOf(ctx.post, key).tag = "Absent" THEN "false"
    ELSE "true"

get_state_change(ctx, key) ==
    IF has_key_pre(ctx, key) = "Err"
    THEN "Err"
    ELSE IF has_key_pre(ctx, key) = "true"
    THEN IF has_key_post(ctx, key) = "Err" THEN "Err"
         ELSE IF has_key_post(ctx, key) = "true" THEN "Updated" ELSE "Deleted"
    ELSE IF has_key_post(ctx, key) = "Err" THEN "Err"
         ELSE IF has_key_post(ctx, key) = "true" THEN "Created" ELSE "NotExists"

get_client_state_change(ctx) ==
    LET change == get_state_change(ctx, ClientStateKey)
    IN IF change = "Err" THEN "StateChangeError" ELSE change

\* A faulty variant of validate_created_client: the consensus state's type
\* is not compared.
validate_created_client_ignoring_consensus_type(ctx) ==
    LET ctype == client_type(ctx)
        cstate == client_state(ctx)
        height == cstate.height
        rd1 == <<RdPostType>>
        rd2 == Append(rd1, RdPostState)
        rd3 == Append(rd2, RdPostCons(height))
    IN IF ctype.tag = "None"
       THEN Out("ClientError", <<>>, <<>>, rd1)
       ELSE IF cstate.tag = "None"
       THEN Out("ClientError", <<>>, <<>>, rd2)
       ELSE IF consensus_state(ctx, height).tag = "None"
       THEN Out("ClientError", <<>>, <<>>, rd3)
       ELSE Out(OkBool(ctype.type = cstate.type), <<>>, <<>>, rd3)

validate_created_client(ctx) ==
    LET ctype == client_type(ctx)
        cstate == client_state(ctx)
        height == cstate.height
        rd1 == <<RdPostType>>
        rd2 == Append(rd1, RdPostState)
        rd3 == Append(rd2, RdPostCons(height))
    IN IF ctype.tag = "None"
       THEN Out("ClientError", <<>>, <<>>, rd1)
       ELSE IF cstate.tag = "None"
       THEN Out("ClientError", <<>>, <<>>, rd2)
       ELSE IF consensus_state(ctx, height).tag = "None"
       THEN Out("ClientError", <<>>, <<>>, rd3)
       ELSE Out(OkBool(ctype.type = cstate.type
                        /\ ctype.type = consensus_state(ctx, height).type),
                <<>>, <<>>, rd3)

\* A faulty variant of try_fold: a rejected header is skipped.
RECURSIVE try_fold_skipping_rejected(_, _, _, _, _)
try_fold_skipping_rejected(client, acc_cs, acc_ccs, headers, calls) ==
    IF headers = <<>>
    THEN [ok |-> TRUE, cs |-> acc_cs, ccs |-> acc_ccs, calls |-> calls]
    ELSE LET header == Head(headers)
             step == check_header_and_update_state(client, acc_cs, header)
             calls2 == Append(calls, [client |-> client, cs |-> acc_cs, header |-> header])
         IN IF step.ok
            THEN try_fold_skipping_rejected(client, step.cs, step.ccs, Tail(headers), calls2)
            ELSE try_fold_skipping_rejected(client, acc_cs, acc_ccs, Tail(headers), calls2)

\* headers.iter().try_fold((prev_client_state, prev_consensus_state), ...):
\* each step verifies one header against the client state of the
\* accumulator and stops at the first rejection.
RECURSIVE try_fold(_, _, _, _, _)
try_fold(client, acc_cs, acc_ccs, headers, calls) ==
    IF headers = <<>>
    THEN [ok |-> TRUE, cs |-> acc_cs, ccs |-> acc_ccs, calls |-> calls]
    ELSE LET header == Head(headers)
             step == check_header_and_update_state(client, acc_cs, header)
             calls2 == Append(calls, [client |-> client, cs |-> acc_cs, header |-> header])
         IN IF step.ok
            THEN try_fold(client, step.cs, step.ccs, Tail(headers), calls2)
            ELSE [ok |-> FALSE, cs |-> ErrState, ccs |-> ErrState, calls |-> calls2]

\* A faulty variant of check_client_id: the ids are not compared.
check_client_id_unchecked(data, client_id) ==
    IF data.id = MalformedId THEN "IbcDataError" ELSE "Ok"

\* let id = data.client_id()?; if id != *client_id { return Err(ClientError) }
check_client_id(data, client_id) ==
    IF data.id = MalformedId THEN "IbcDataError"
    ELSE IF data.id # client_id THEN "ClientError"
    ELSE "Ok"

\* Faulty variants of update_result: one component of the pair is not
\* compared.
update_result_ignoring_consensus_state(updated, cstate, ccs) ==
    IF updated.ok THEN OkBool(updated.cs = cstate) ELSE "HeaderError"

update_result_ignoring_client_state(updated, cstate, ccs) ==
    IF updated.ok THEN OkBool(updated.ccs = ccs) ELSE "HeaderError"

\* match updated { Ok(pair) => Ok(pair == posterior pair), Err(e) => HeaderError }
update_result(updated, cstate, ccs) ==
    IF updated.ok
    THEN OkBool(updated.cs = cstate /\ updated.ccs = ccs)
    ELSE "HeaderError"

\* A faulty variant of upgrade_result: the consensus state is not compared.
upgrade_result_ignoring_consensus_state(upgraded, cstate, ccs) ==
    IF upgraded.ok THEN OkBool(upgraded.cs = cstate) ELSE "ProofVerificationError"

\* match client.verify_upgrade_and_update_state(..) { Ok(pair) => Ok(pair ==
\* posterior pair), Err(e) => ProofVerificationError }
upgrade_result(upgraded, cstate, ccs) ==
    IF upgraded.ok
    THEN OkBool(upgraded.cs = cstate /\ upgraded.ccs = ccs)
    ELSE "ProofVerificationError"

verify_update_client(ctx, client_id, data) ==
    IF check_client_id(data, client_id) # "Ok"
    THEN Out(check_client_id(data, client_id), <<>>, <<>>, <<>>)
    ELSE
    LET cstate == client_state(ctx)
        height == cstate.height
        rd1 == <<RdPostState>>
        rd2 == Append(rd1, RdPostCons(height))
        rd3 == Append(rd2, RdPreState)
        prev_client_state == client_state_pre(ctx)
        rd4 == Append(rd3, RdPreCons(prev_client_state.height))
    IN IF cstate.tag = "None"
       THEN Out("ClientError", <<>>, <<>>, rd1)
       ELSE IF consensus_state(ctx, height).tag = "None"
       THEN Out("ClientError", <<>>, <<>>, rd2)
       ELSE IF prev_client_state.tag = "Err"
       THEN Out("ClientError", <<>>, <<>>, rd3)
       ELSE IF consensus_state_pre(ctx, prev_client_state.height).tag = "Err"
       THEN Out("ClientError", <<>>, <<>>, rd4)
       ELSE IF ~data.headers_ok
       THEN Out("IbcDataError", <<>>, <<>>, rd4)
       ELSE
       LET updated == try_fold(cstate.type, prev_client_state,
                               consensus_state_pre(ctx, prev_client_state.height),
                               data.headers, <<>>)
       IN Out(update_result(updated, cstate, consensus_state(ctx, height)),
              updated.calls, <<>>, rd4)

verify_upgrade_client(ctx, client_id, data) ==
    IF check_client_id(data, client_id) # "Ok"
    THEN Out(check_client_id(data, client_id), <<>>, <<>>, <<>>)
    ELSE
    LET cstate == client_state(ctx)
        height == cstate.height
        rd1 == <<RdPostState>>
        rd2 == Append(rd1, RdPostCons(height))
        rd3 == Append(rd2, RdPreState)
        pre_client_state == client_state_pre(ctx)
    IN IF cstate.tag = "None"
       THEN Out("ClientError", <<>>, <<>>, rd1)
       ELSE IF consensus_state(ctx, height).tag = "None"
       THEN Out("ClientError", <<>>, <<>>, rd2)
       ELSE IF pre_client_state.tag = "Err"
       THEN Out("ClientError", <<>>, <<>>, rd3)
       ELSE IF data.client_proof.tag = "Malformed"
               \/ data.consensus_proof.tag = "Malformed"
       THEN Out("IbcDataError", <<>>, <<>>, rd3)
       ELSE
       LET call == [client |-> cstate.type, cs |-> pre_client_state,
                    ccs |-> consensus_state(ctx, height),
                    client_proof |-> data.client_proof,
                    consensus_proof |-> data.consensus_proof]
           upgraded == verify_upgrade_and_update_state(
                           cstate.type, pre_client_state, consensus_state(ctx, height),
                           data.client_proof, data.consensus_proof)
       IN Out(upgrade_result(upgraded, cstate, consensus_state(ctx, height)),
              <<>>, <<call>>, rd3)

\* A faulty variant of validate_updated_client: the upgrade schema is tried
\* first.
validate_updated_client_upgrade_first(ctx, client_id, data) ==
    IF ClientUpgradeData_try_from_slice(data).tag = "Ok"
    THEN verify_upgrade_client(ctx, client_id, ClientUpgradeData_try_from_slice(data))
    ELSE IF ClientUpdateData_try_from_slice(data).tag = "Ok"
    THEN verify_update_client(ctx, client_id, ClientUpdateData_try_from_slice(data))
    ELSE Out("DecodingTxDataError", <<>>, <<>>, <<>>)

validate_updated_client(ctx, client_id, data) ==
    IF ClientUpdateData_try_from_slice(data).tag = "Ok"
    THEN verify_update_client(ctx, client_id, ClientUpdateData_try_from_slice(data))
    ELSE IF ClientUpgradeData_try_from_slice(data).tag = "Ok"
    THEN verify_upgrade_client(ctx, client_id, ClientUpgradeData_try_from_slice(data))
    ELSE Out("DecodingTxDataError", <<>>, <<>>, <<>>)

\* A faulty variant of validate_client: every state change but Created goes
\* to the update validator.
validate_client_without_catch_all(ctx, client_id, data) ==
    LET change == get_client_state_change(ctx)
    IN IF change = "StateChangeError"
       THEN Out("StateChangeError", <<>>, <<>>, <<>>)
       ELSE IF change = "Created"
       THEN validate_created_client(ctx)
       ELSE validate_updated_client(ctx, client_id, data)

validate_client(ctx, client_id, data) ==
    LET change == get_client_state_change(ctx)
    IN IF change = "StateChangeError"
       THEN Out("StateChangeError", <<>>, <<>>, <<>>)
       ELSE IF change = "Created"
       THEN validate_created_client(ctx)
       ELSE IF change = "Updated"
       THEN validate_updated_client(ctx, client_id, data)
       ELSE Out("StateChangeError", <<>>, <<>>, <<>>)

(* ------------------------------------------------------------------ *)
(* Snapshots and payloads the model draws from                        *)
(* ------------------------------------------------------------------ *)

RawStates == {Absent, IoErr, Bad} \cup States

RawTypes == {Absent, Bad} \cup [tag : {"Val"}, type : ClientTypes, height : {0}]

RawCounters ==
    {CounterCell(t, 0) : t \in {"Absent", "IoErr", "Bad"}}
        \cup {CounterCell("Val", n) : n \in 0..MaxCounter}

EmptyCons == [h \in Heights |-> Absent]

EmptySnapshot ==
    [ctype |-> Absent, cstate |-> Absent, cons |-> EmptyCons,
     counter |-> CounterCell("Absent", 0)]

\* The heights that the client states of a pair of snapshots name: the only
\* heights at which an operation reads a consensus state.
Named(c) == IF c.tag = "Val" THEN {c.height} ELSE {}

\* A consensus-state store with at most one cell written.
StoreWrites(m, hs) == {m} \cup {[m EXCEPT ![h] = v] : h \in hs, v \in RawStates}

\* The pairs of snapshots with client states c (pre) and d (post) and
\* posterior client type t: the prior store holds at most one entry, either
\* any cell at the prior client's latest height or the consensus state that
\* a prior update left at the other named height, and the transaction wrote
\* at most one cell of the store.
Worlds(t, c, d) ==
    UNION {{[p |-> [EmptySnapshot EXCEPT !.ctype = IF c = Absent THEN Absent ELSE t,
                                         !.cstate = c, !.cons = m],
             q |-> [EmptySnapshot EXCEPT !.ctype = t, !.cstate = d, !.cons = n]] :
               n \in StoreWrites(m, Named(c) \cup Named(d))} :
           m \in IF c = Absent THEN {EmptyCons}
                 ELSE StoreWrites(EmptyCons, Named(c))
                          \cup {[EmptyCons EXCEPT ![h] = [tag |-> "Val", type |-> t.type,
                                                          height |-> h]] :
                                    h \in Named(d) \ Named(c)}}

\* The snapshots of the client's keys.  Either the client-state key is
\* not in the pre snapshot, which then holds no key of the client ...
NewClientWorlds == UNION {Worlds(t, Absent, d) : t \in RawTypes, d \in RawStates}

\* ... or it is: the two client types behave alike, so the prior client,
\* when its state decodes, is taken to be the Tendermint one, created with
\* that client type.
Tendermint == [tag |-> "Val", type |-> "Tendermint", height |-> 0]

PriorStates == {IoErr, ReadErr, Bad} \cup {c \in States : c.type = "Tendermint"}

OldClientWorlds == UNION {Worlds(Tendermint, c, d) : c \in PriorStates, d \in RawStates}

\* ... and of the counter key.
CounterSnapshots == {[EmptySnapshot EXCEPT !.counter = c] : c \in RawCounters}

DecodedProofs == Proofs \ {Cell("Malformed")}

Updates ==
    {UpdateData(id, TRUE, hs) : id \in {KeyId, OtherId}, hs \in HeaderSeqs}
        \cup {UpdateData(MalformedId, TRUE, <<>>), UpdateData(KeyId, FALSE, <<>>)}

Upgrades ==
    {UpgradeData(id, cp, pp) :
        id \in {KeyId, OtherId}, cp \in DecodedProofs, pp \in DecodedProofs}
        \cup {UpgradeData(KeyId, Cell("Malformed"), pp) : pp \in DecodedProofs}
        \cup {UpgradeData(KeyId, cp, Cell("Malformed")) : cp \in DecodedProofs}
        \cup {UpgradeData(MalformedId, Cell("Invalid"), Cell("Invalid"))}

\* Bytes that decode under both schemas, which both begin with the client id.
BothSchemas ==
    {[upd |-> u, upg |-> g] :
        u \in {x \in Updates : x.id = KeyId /\ Len(x.headers) <= 1},
        g \in {y \in Upgrades : /\ y.id = KeyId
                                 /\ y.client_proof = y.consensus_proof
                                 /\ y.client_proof.height = MaxHeight}}

TxData ==
    {[upd |-> u, upg |-> NoUpgrade] : u \in Updates}
        \cup {[upd |-> NoUpdate, upg |-> g] : g \in Upgrades}
        \cup {[upd |-> NoUpdate, upg |-> NoUpgrade]}
        \cup BothSchemas

NoData == [upd |-> NoUpdate, upg |-> NoUpgrade]

(* ------------------------------------------------------------------ *)
(* The state machine                                                  *)
(* ------------------------------------------------------------------ *)

Idle ==
    /\ op = "none"
    /\ tx_data = NoData
    /\ result = "none"
    /\ hcalls = <<>>
    /\ ucalls = <<>>
    /\ reads = <<>>
    /\ counter_result = NoCounter
    /\ created = Absent

\* An Ibc validity predicate is constructed over a pair of snapshots.
Init ==
    /\ \/ \E w \in NewClientWorlds \cup OldClientWorlds : pre = w.p /\ post = w.q
       \/ pre \in CounterSnapshots /\ post \in CounterSnapshots
    /\ Idle

\* validate_client(client_id, tx_data) for the key of client KeyId.
ValidateClient(data) ==
    LET out == validate_client([pre |-> pre, post |-> post], KeyId, data)
    IN /\ op = "none"
       /\ op' = "validate_client"
       /\ tx_data' = data
       /\ result' = out.res
       /\ hcalls' = out.hcalls
       /\ ucalls' = out.ucalls
       /\ reads' = out.reads
       /\ counter_result' = NoCounter
       /\ UNCHANGED <<pre, post, created>>

ClientCounter ==
    /\ op = "none"
    /\ op' = "client_counter"
    /\ counter_result' = client_counter([pre |-> pre, post |-> post])
    /\ tx_data' = NoData
    /\ result' = "none"
    /\ hcalls' = <<>>
    /\ ucalls' = <<>>
    /\ reads' = <<>>
    /\ UNCHANGED <<pre, post, created>>

ClientCounterPre ==
    /\ op = "none"
    /\ op' = "client_counter_pre"
    /\ counter_result' = client_counter_pre([pre |-> pre, post |-> post])
    /\ tx_data' = NoData
    /\ result' = "none"
    /\ hcalls' = <<>>
    /\ ucalls' = <<>>
    /\ reads' = <<>>
    /\ UNCHANGED <<pre, post, created>>

Next ==
    \/ \E data \in TxData : ValidateClient(data)
    \/ ClientCounter
    \/ ClientCounterPre

Spec == Init /\ [][Next]_vars

(* ------------------------------------------------------------------ *)
(* The ledger: transactions over the client's keys                    *)
(* ------------------------------------------------------------------ *)

\* What a transaction may leave in the client's keys, given the storage
\* before it: a client type, a client state, and the consensus state at
\* that state's latest height, each written or left as it was.
TxWrites(s) ==
    UNION {{[s EXCEPT !.ctype = t, !.cstate = c, !.cons = m] :
               t \in RawTypes \ {Absent, Bad},
               m \in {s.cons} \cup {[s.cons EXCEPT ![c.height] = v] : v \in States}} :
           c \in States}

Ascending(hs) == \A i \in 1..(Len(hs) - 1) : hs[i].height < hs[i + 1].height

\* The payloads of the ledger's transactions name the client and decode,
\* and carry their headers in ascending height.
LedgerPayloads ==
    {[upd |-> u, upg |-> NoUpgrade] :
        u \in {x \in Updates : x.id = KeyId /\ x.headers_ok /\ Ascending(x.headers)}}
        \cup {[upd |-> NoUpdate, upg |-> g] :
                  g \in {y \in Upgrades : /\ y.id = KeyId
                                           /\ y.client_proof.tag # "Malformed"
                                           /\ y.consensus_proof.tag # "Malformed"}}

\* The ledger starts with no client.  post is the committed storage; after
\* an accepted transaction pre is the storage it was applied to.
LedgerInit ==
    /\ pre = EmptySnapshot
    /\ post = EmptySnapshot
    /\ Idle

\* A transaction is applied to the committed storage and validate_client
\* is run for the client's changed keys; the transaction is committed when
\* the predicate answers true and dropped otherwise.  created records the
\* client type written when the client was created.
Transaction(q, data) ==
    LET out == validate_client([pre |-> post, post |-> q], KeyId, data)
    IN /\ op = "none"
       /\ q # post
       /\ IF out.res = "Ok(true)"
          THEN /\ pre' = post
               /\ post' = q
               /\ op' = "validate_client"
               /\ tx_data' = data
               /\ result' = out.res
               /\ hcalls' = out.hcalls
               /\ ucalls' = out.ucalls
               /\ reads' = out.reads
               /\ counter_result' = NoCounter
               /\ created' = IF post.cstate = Absent THEN q.ctype ELSE created
          ELSE UNCHANGED vars

\* The committed storage is what the next transaction is applied to.
NextBlock ==
    /\ op = "validate_client"
    /\ pre' = post
    /\ op' = "none"
    /\ tx_data' = NoData
    /\ result' = "none"
    /\ hcalls' = <<>>
    /\ ucalls' = <<>>
    /\ reads' = <<>>
    /\ UNCHANGED <<post, counter_result, created>>

LedgerNext ==
    \/ \E q \in TxWrites(post), data \in LedgerPayloads : Transaction(q, data)
    \/ NextBlock

LedgerSpec == LedgerInit /\ [][LedgerNext]_vars

(* ------------------------------------------------------------------ *)
(* Properties of validate_client                                      *)
(* ------------------------------------------------------------------ *)

Called == op = "validate_client"

\* The classified state change of the client-state key, from the snapshots.
KeyIn(s) == s.cstate.tag \in {"Val", "Bad", "ReadErr"}

IsCreated == pre.cstate.tag = "Absent" /\ KeyIn(post)

IsUpdated == KeyIn(pre) /\ KeyIn(post)

IsNotExists == pre.cstate.tag = "Absent" /\ post.cstate.tag = "Absent"

IsDeleted == KeyIn(pre) /\ post.cstate.tag = "Absent"

\* The posterior pair and the prior pair, where they decode.
Present(cell) == cell.tag = "Val"

PostCS == post.cstate

PostCCS == post.cons[post.cstate.height]

PriorCS == pre.cstate

PriorCCS == pre.cons[pre.cstate.height]

PostPresent == Present(PostCS) /\ Present(PostCCS)

PriorPresent == Present(PriorCS) /\ Present(PriorCCS)

\* The payload is validated as an update, or as an upgrade, of client KeyId.
AsUpdate == tx_data.upd.tag = "Ok"

AsUpgrade == tx_data.upd.tag = "Err" /\ tx_data.upg.tag = "Ok"

NoCalls == hcalls = <<>> /\ ucalls = <<>>

\* The fold of the header-verification step over a header sequence, by its
\* definition on the sequence's last header.
RECURSIVE FoldPair(_, _, _, _)
FoldPair(client, cs, ccs, hs) ==
    IF hs = <<>>
    THEN Accepted(cs, ccs)
    ELSE LET before == FoldPair(client, cs, ccs, SubSeq(hs, 1, Len(hs) - 1))
         IN IF before.ok
            THEN check_header_and_update_state(client, before.cs, hs[Len(hs)])
            ELSE Rejected

UpdateCase ==
    /\ Called /\ IsUpdated /\ AsUpdate
    /\ tx_data.upd.id = KeyId /\ tx_data.upd.headers_ok
    /\ PostPresent /\ PriorPresent

\* C1: for an Updated client, a matching update payload and all four states
\* present, validate_client returns true iff every header is accepted and
\* the final pair of the fold equals the posterior pair, and false when
\* every header is accepted and the final pair differs.
C1_UpdateTrueIffFoldMatches ==
    UpdateCase =>
        LET f == FoldPair(PostCS.type, PriorCS, PriorCCS, tx_data.upd.headers)
        IN /\ (result = "Ok(true)") <=> (f.ok /\ f.cs = PostCS /\ f.ccs = PostCCS)
           /\ (f.ok /\ ~(f.cs = PostCS /\ f.ccs = PostCCS)) => result = "Ok(false)"

C1_Witness ==
    /\ UpdateCase
    /\ Len(tx_data.upd.headers) = 1
    /\ result = "Ok(true)"

\* C2: for a Created client the payload is ignored; the result is
\* ClientError when the posterior client type, client state or consensus
\* state at the latest height is missing or undecodable, and otherwise true
\* iff the recorded type equals both reported types, false otherwise.
C2_CreatedTypesAgree ==
    (Called /\ IsCreated) =>
        /\ NoCalls
        /\ IF Present(post.ctype) /\ PostPresent
           THEN result = OkBool(post.ctype.type = PostCS.type
                                /\ post.ctype.type = PostCCS.type)
           ELSE result = "ClientError"

C2_Witness ==
    /\ Called /\ IsCreated /\ AsUpdate
    /\ Present(post.ctype) /\ PostPresent
    /\ post.ctype.type = PostCS.type
    /\ post.ctype.type # PostCCS.type
    /\ result = "Ok(false)"

\* C3: a NotExists or Deleted client yields StateChangeError for every
\* payload and every content of the other keys, with no read of a state
\* and no verifier call; Created goes to the creation validator (which reads
\* the client type first) and Updated to the update validator (which never
\* reads it).
C3_DispatchOnStateChange ==
    Called =>
        /\ (IsNotExists \/ IsDeleted) =>
               (result = "StateChangeError" /\ NoCalls /\ reads = <<>>)
        /\ IsCreated => (reads # <<>> /\ reads[1] = RdPostType)
        /\ IsUpdated =>
               (\A i \in 1..Len(reads) : reads[i] # RdPostType)
                   /\ result # "StateChangeError"

C3_Witness ==
    /\ Called /\ IsDeleted
    /\ Present(PriorCS) /\ Present(PriorCCS)
    /\ AsUpdate /\ tx_data.upd.id = KeyId /\ tx_data.upd.headers = <<>>
    /\ post.cons = pre.cons
    /\ result = "StateChangeError"

\* C4: for an Updated client, a payload validated as an update or as an
\* upgrade whose client id differs from the key's yields ClientError before
\* any read of a state and before any verifier call.
C4_IdMismatchFirst ==
    (/\ Called /\ IsUpdated
     /\ \/ AsUpdate /\ tx_data.upd.id = OtherId
        \/ AsUpgrade /\ tx_data.upg.id = OtherId) =>
        (result = "ClientError" /\ NoCalls /\ reads = <<>>)

\* The upgrade of the witness would verify against the snapshots.
C4_Witness ==
    /\ Called /\ IsUpdated /\ AsUpgrade
    /\ tx_data.upg.id = OtherId
    /\ PostPresent /\ Present(PriorCS)
    /\ LET v == verify_upgrade_and_update_state(PostCS.type, PriorCS, PostCCS,
                    tx_data.upg.client_proof, tx_data.upg.consensus_proof)
       IN v.ok /\ v.cs = PostCS /\ v.ccs = PostCCS
    /\ result = "ClientError"

\* The first header of hs that the fold rejects (0: none).
FirstRejected(client, cs, ccs, hs) ==
    IF \E k \in 1..Len(hs) : ~FoldPair(client, cs, ccs, SubSeq(hs, 1, k)).ok
    THEN CHOOSE k \in 1..Len(hs) :
             /\ ~FoldPair(client, cs, ccs, SubSeq(hs, 1, k)).ok
             /\ \A j \in 1..(k - 1) : FoldPair(client, cs, ccs, SubSeq(hs, 1, j)).ok
    ELSE 0

\* C5: headers are verified in payload order, each against the client
\* state the previous step produced; the fold stops at the first rejected
\* header, no later header is verified, and the result is HeaderError.
C5_FoldStopsAtFirstRejection ==
    UpdateCase =>
        LET hs == tx_data.upd.headers
            k == FirstRejected(PostCS.type, PriorCS, PriorCCS, hs)
            n == IF k = 0 THEN Len(hs) ELSE k
        IN /\ Len(hcalls) = n
           /\ \A i \in 1..n :
                  /\ hcalls[i].header = hs[i]
                  /\ hcalls[i].client = PostCS.type
                  /\ hcalls[i].cs =
                         FoldPair(PostCS.type, PriorCS, PriorCCS, SubSeq(hs, 1, i - 1)).cs
           /\ (k # 0) <=> (result = "HeaderError")

\* Header 1 is accepted, header 2 is rejected, and the pair after header 1
\* is the posterior pair.
C5_Witness ==
    /\ UpdateCase
    /\ Len(tx_data.upd.headers) = 2
    /\ LET f == FoldPair(PostCS.type, PriorCS, PriorCCS, SubSeq(tx_data.upd.headers, 1, 1))
       IN f.ok /\ f.cs = PostCS /\ f.ccs = PostCCS
    /\ Len(hcalls) = 2
    /\ result = "HeaderError"

UpgradeCase ==
    /\ Called /\ IsUpdated /\ AsUpgrade
    /\ tx_data.upg.id = KeyId
    /\ tx_data.upg.client_proof.tag # "Malformed"
    /\ tx_data.upg.consensus_proof.tag # "Malformed"
    /\ PostPresent /\ Present(PriorCS)

\* C6: for an Updated client and an upgrade payload with a matching id and
\* the required states present, the proof verification is invoked exactly
\* once with (prior ClientState, posterior ConsensusState, client proof,
\* consensus proof); a rejection gives ProofVerificationError, and an
\* acceptance gives true iff the returned pair equals the posterior pair,
\* false otherwise.
C6_UpgradeProofDecides ==
    UpgradeCase =>
        LET cp == tx_data.upg.client_proof
            pp == tx_data.upg.consensus_proof
            v == verify_upgrade_and_update_state(PostCS.type, PriorCS, PostCCS, cp, pp)
        IN /\ hcalls = <<>>
           /\ ucalls = <<[client |-> PostCS.type, cs |-> PriorCS, ccs |-> PostCCS,
                          client_proof |-> cp, consensus_proof |-> pp]>>
           /\ ~v.ok => result = "ProofVerificationError"
           /\ v.ok => result = OkBool(v.cs = PostCS /\ v.ccs = PostCCS)

\* A client proof altered from one that verifies.
C6_Witness ==
    /\ UpgradeCase
    /\ tx_data.upg.client_proof = Cell("Invalid")
    /\ tx_data.upg.consensus_proof = PostCCS
    /\ verify_upgrade_and_update_state(PostCS.type, PriorCS, PostCCS,
                                       PostCS, PostCCS).ok
    /\ result = "ProofVerificationError"

\* C7: for an Updated client, a payload that decodes as UpdateClientData gets
\* exactly the outcome of update validation and the upgrade validator is not
\* run, whatever the bytes decode to as UpgradeClientData; upgrade validation
\* runs only when update decoding fails; bytes of neither schema give
\* DecodingTxDataError.
C7_UpdateSchemaFirst ==
    (Called /\ IsUpdated) =>
        LET ctx == [pre |-> pre, post |-> post]
            now == Out(result, hcalls, ucalls, reads)
        IN /\ AsUpdate =>
                  (now = verify_update_client(ctx, KeyId, tx_data.upd) /\ ucalls = <<>>)
           /\ AsUpgrade => now = verify_upgrade_client(ctx, KeyId, tx_data.upg)
           /\ (tx_data.upd.tag = "Err" /\ tx_data.upg.tag = "Err") =>
                  (result = "DecodingTxDataError" /\ NoCalls /\ reads = <<>>)

\* Bytes of both schemas, for which upgrade validation would answer true.
C7_Witness ==
    /\ Called /\ IsUpdated
    /\ AsUpdate /\ tx_data.upg.tag = "Ok"
    /\ verify_upgrade_client([pre |-> pre, post |-> post], KeyId, tx_data.upg).res
           = "Ok(true)"
    /\ result = "HeaderError"

\* C9: client_counter never fails: it returns the decoded counter, and 0
\* when the counter key is absent, unreadable or undecodable.
C9_CounterDegradesToMin ==
    op = "client_counter" =>
        counter_result =
            IF post.counter.tag = "Val"
            THEN CounterVal(post.counter.n)
            ELSE CounterVal(0)

\* C10: for an Updated client with the posterior pair present and a matching
\* payload, a prior ClientState that does not decode gives ClientError with no
\* verifier call, for updates and upgrades; so does, for updates, a prior
\* ConsensusState that is missing, unreadable or undecodable at the prior
\* latest height of the pre snapshot, whatever the post snapshot holds
\* there; an upgrade reads no prior ConsensusState.
C10_PriorStateRequired ==
    (/\ Called /\ IsUpdated /\ PostPresent
     /\ \/ AsUpdate /\ tx_data.upd.id = KeyId
        \/ AsUpgrade /\ tx_data.upg.id = KeyId) =>
        /\ ~Present(PriorCS) => (result = "ClientError" /\ NoCalls)
        /\ (AsUpdate /\ Present(PriorCS) /\ ~Present(PriorCCS)) =>
               (result = "ClientError" /\ NoCalls)
        /\ \A i \in 1..Len(reads) :
               reads[i][2] = "consensusStates" =>
                   \/ reads[i] = RdPostCons(PostCS.height)
                   \/ AsUpdate /\ Present(PriorCS) /\ reads[i] = RdPreCons(PriorCS.height)
        /\ (AsUpgrade /\ Present(PriorCS)) => result # "ClientError"

\* The pre snapshot lacks the consensus state at the prior latest height and
\* holds one at another height, and the post snapshot holds one at the prior
\* latest height.
C10_Witness ==
    /\ Called /\ IsUpdated /\ PostPresent
    /\ AsUpdate /\ tx_data.upd.id = KeyId /\ tx_data.upd.headers_ok
    /\ Present(PriorCS)
    /\ PriorCCS = Absent
    /\ Present(post.cons[PriorCS.height])
    /\ \E h \in Heights \ {PriorCS.height} : Present(pre.cons[h])
    /\ result = "ClientError"

C11_CounterPreReadsPre ==
    op = "client_counter_pre" =>
        counter_result =
            IF pre.counter.tag = "Val"
            THEN CounterVal(pre.counter.n)
            ELSE CounterErr

====
